---- MODULE Spec2Model ----
(***************************************************************************)
(* Model of the series generators of integration/util.go and of the        *)
(* query-stats middleware of the query frontend.                           *)
(*                                                                         *)
(*   SpecSelector : a caller loop over generateAlternatingSeries           *)
(*   SpecSingle   : one call of a Generate*HistogramSeries function        *)
(*   SpecBulk     : one call of GenerateNHistogramSeries, statement-wise   *)
(*   SpecStats    : a sequence of queryStatsMiddleware.Do calls            *)
(***************************************************************************)
EXTENDS Integers, Sequences, FiniteSets, TLC

VARIABLES
    selStart, selOut,
    pc, args, series, vector, matrix, callerLabels, randDraws,
    bpc, bargs, bi, blbls, bseries, bvector, calls,
    nonAlignedQueries, regexpMatcherCount, regexpMatcherOptimizedCount,
    nextCalls, req, resp

selVars == <<selStart, selOut>>
singleVars == <<pc, args, series, vector, matrix, callerLabels>>
bulkVars == <<bpc, bargs, bi, blbls, bseries, bvector, calls>>
statsVars == <<nonAlignedQueries, regexpMatcherCount,
               regexpMatcherOptimizedCount, nextCalls, req, resp>>
vars == <<selVars, singleVars, randDraws, bulkVars, statsVars>>

----------------------------------------------------------------------------
(* Bounds of the model *)

MaxIndex == 12
MinIndex == 0 - MaxIndex
MaxSelCalls == 12
MaxLabels == 2
MaxSeries == 3
MaxRequests == 3

----------------------------------------------------------------------------
(* Values shared by the generators *)

Nil == "nil"

MetricName == "__name__"

Label(n, v) == [Name |-> n, Value |-> v]

\* the labels a caller may pass: a repeated name with two values, and one
\* that collides with the metric-name label
LabelChoices == {Label("job", "x"), Label("job", "y"), Label(MetricName, "x")}

SeqsUpTo(S, n) == UNION {[1..k -> S] : k \in 0..n}

\* metric names; "x" is also the value of a __name__ label of LabelChoices
Names == {"m1", "x"}

\* time.Time values, as nanoseconds since the epoch
Times == {1500000, 2000000}

NanosPerMilli == 1000000

\* Go's integer division and remainder truncate toward zero
GoDiv(a, b) == IF a >= 0 THEN a \div b ELSE 0 - ((0 - a) \div b)

GoRem(a, b) == IF a >= 0 THEN a % b ELSE 0 - ((0 - a) % b)

\* variant: microseconds instead of milliseconds
TimeToMilliseconds_micros(ts) == GoDiv(ts, 1000)


TimeToMilliseconds(ts) == GoDiv(ts, NanosPerMilli)

\* float64(i) of an int (exact below 2^53)
Float64(i) == <<"float64", i>>

\* variant: the upper end included
Intn_inclusive(n) == 0..n

\* rand.Intn(n): the values it can return
Intn(n) == 0..(n - 1)

RandN == 1000

----------------------------------------------------------------------------
(* generateAlternatingSeries *)

\* variant: the cases 1 and 2 exchanged
generateAlternatingSeries_swapped(i) ==
    CASE GoRem(i, 5) = 0 -> "generateFloatSeries"
      [] GoRem(i, 5) = 1 -> "GenerateFloatHistogramSeries"
      [] GoRem(i, 5) = 2 -> "GenerateHistogramSeries"
      [] GoRem(i, 5) = 3 -> "GenerateGaugeHistogramSeries"
      [] GoRem(i, 5) = 4 -> "GenerateGaugeFloatHistogramSeries"
      [] OTHER -> Nil


generateAlternatingSeries(i) ==
    CASE GoRem(i, 5) = 0 -> "generateFloatSeries"
      [] GoRem(i, 5) = 1 -> "GenerateHistogramSeries"
      [] GoRem(i, 5) = 2 -> "GenerateFloatHistogramSeries"
      [] GoRem(i, 5) = 3 -> "GenerateGaugeHistogramSeries"
      [] GoRem(i, 5) = 4 -> "GenerateGaugeFloatHistogramSeries"
      [] OTHER -> Nil

\* a caller building a fixture: generateAlternatingSeries(i) for the
\* consecutive indices selStart, selStart + 1, ...
SelectNext ==
    /\ Len(selOut) < MaxSelCalls
    /\ selOut' = Append(selOut, generateAlternatingSeries(selStart + Len(selOut)))
    /\ UNCHANGED <<selStart, singleVars, randDraws, bulkVars, statsVars>>

----------------------------------------------------------------------------
(* The single-series histogram generators *)

\* label names of a label list, and the model.Metric (a map from label name
\* to value) obtained by assigning the labels in order: the last value of a
\* repeated name wins
LabelNamesOf(lbls) == {lbls[k].Name : k \in 1..Len(lbls)}

LastIndexOf(lbls, n) ==
    CHOOSE k \in 1..Len(lbls) :
        /\ lbls[k].Name = n
        /\ \A j \in (k + 1)..Len(lbls) : lbls[j].Name # n

MetricOf(lbls) ==
    [n \in LabelNamesOf(lbls) |-> lbls[LastIndexOf(lbls, n)].Value]

\* the test histograms of pkg/util/test, kept as the call that builds them:
\* which generator, from which seed
generateTestHistogram(value) ==
    [gen |-> "GenerateTestHistogram", seed |-> value]

generateTestFloatHistogram(value) ==
    [gen |-> "GenerateTestFloatHistogram", seed |-> value]

generateTestGaugeHistogram(value) ==
    [gen |-> "GenerateTestGaugeHistogram", seed |-> value]

generateTestGaugeFloatHistogram(value) ==
    [gen |-> "GenerateTestGaugeFloatHistogram", seed |-> value]

generateTestSampleHistogram(value) ==
    [gen |-> "GenerateTestSampleHistogram", seed |-> value]

\* the write-path conversions to prompb.Histogram
HistogramToHistogramProto(tsMillis, h) ==
    [proto |-> "HistogramToHistogramProto", Timestamp |-> tsMillis, h |-> h]

FloatHistogramToHistogramProto(tsMillis, fh) ==
    [proto |-> "FloatHistogramToHistogramProto", Timestamp |-> tsMillis, h |-> fh]

\* variant: the exemplar carries no label
TraceLabels_none == <<>>


TraceLabels == <<Label("trace_id", "1234")>>

Exemplar(v, tsMillis) ==
    [Value |-> Float64(v), Timestamp |-> tsMillis, Labels |-> TraceLabels]

\* variant: the metric-name label appended after the additional labels
WrapperLabels_nameLast(name, additionalLabels) ==
    additionalLabels \o <<Label(MetricName, name)>>

\* lbls := append([]prompb.Label{{Name: labels.MetricName, Value: name}}, additionalLabels...)
WrapperLabels(name, additionalLabels) ==
    <<Label(MetricName, name)>> \o additionalLabels

\* variant: the metric name never assigned
WrapperMetric_noName(name, additionalLabels) ==
    MetricOf(additionalLabels)

\* metric := model.Metric{}; metric[__name__] = name; then every additional label
WrapperMetric(name, additionalLabels) ==
    MetricOf(<<Label(MetricName, name)>> \o additionalLabels)

\* a generateHistogramFunc value, named after the function whose closure it
\* is, applied to its arguments
CallHistogramFunc(generateHistogram, tsMillis, value) ==
    CASE generateHistogram = "GenerateHistogramSeries" ->
            HistogramToHistogramProto(tsMillis, generateTestHistogram(value))
      [] generateHistogram = "GenerateFloatHistogramSeries" ->
            FloatHistogramToHistogramProto(tsMillis, generateTestFloatHistogram(value))
      [] generateHistogram = "GenerateGaugeHistogramSeries" ->
            HistogramToHistogramProto(tsMillis, generateTestGaugeHistogram(value))
      [] generateHistogram = "GenerateGaugeFloatHistogramSeries" ->
            FloatHistogramToHistogramProto(tsMillis, generateTestGaugeFloatHistogram(value))

\* the body of generateHistogramSeriesWrapper once rand.Intn(1000) returned
\* value; additionalLabels of the result is the caller's slice on return
generateHistogramSeriesWrapper(generateHistogram, name, ts, additionalLabels, value) ==
    LET tsMillis == TimeToMilliseconds(ts)
        lbls == WrapperLabels(name, additionalLabels)
        metric == WrapperMetric(name, additionalLabels)
    IN  [series |-> <<[Labels |-> lbls,
                       Samples |-> <<>>,
                       Exemplars |-> <<Exemplar(value, tsMillis)>>,
                       Histograms |-> <<CallHistogramFunc(generateHistogram,
                                                          tsMillis, value)>>]>>,
         vector |-> <<[Metric |-> metric,
                       Timestamp |-> tsMillis,
                       Histogram |-> generateTestSampleHistogram(value)]>>,
         matrix |-> <<[Metric |-> metric,
                       Histograms |-> <<[Timestamp |-> tsMillis,
                                         Histogram |-> generateTestSampleHistogram(value)]>>]>>,
         additionalLabels |-> additionalLabels]

GenerateHistogramSeries(name, ts, additionalLabels, value) ==
    generateHistogramSeriesWrapper("GenerateHistogramSeries",
                                   name, ts, additionalLabels, value)

GenerateFloatHistogramSeries(name, ts, additionalLabels, value) ==
    generateHistogramSeriesWrapper("GenerateFloatHistogramSeries",
                                   name, ts, additionalLabels, value)

GenerateGaugeHistogramSeries(name, ts, additionalLabels, value) ==
    generateHistogramSeriesWrapper("GenerateGaugeHistogramSeries",
                                   name, ts, additionalLabels, value)

GenerateGaugeFloatHistogramSeries(name, ts, additionalLabels, value) ==
    generateHistogramSeriesWrapper("GenerateGaugeFloatHistogramSeries",
                                   name, ts, additionalLabels, value)

HistogramSeriesFuncs ==
    {"GenerateHistogramSeries", "GenerateFloatHistogramSeries",
     "GenerateGaugeHistogramSeries", "GenerateGaugeFloatHistogramSeries"}

\* a generateSeriesFunc value applied to its arguments
ApplySeriesFunc(fn, name, ts, additionalLabels, value) ==
    CASE fn = "GenerateHistogramSeries" ->
            GenerateHistogramSeries(name, ts, additionalLabels, value)
      [] fn = "GenerateFloatHistogramSeries" ->
            GenerateFloatHistogramSeries(name, ts, additionalLabels, value)
      [] fn = "GenerateGaugeHistogramSeries" ->
            GenerateGaugeHistogramSeries(name, ts, additionalLabels, value)
      [] fn = "GenerateGaugeFloatHistogramSeries" ->
            GenerateGaugeFloatHistogramSeries(name, ts, additionalLabels, value)

\* a test picks the generator, the metric name, the time and the labels
SingleCall ==
    /\ pc = "idle"
    /\ \E fn \in HistogramSeriesFuncs, name \in Names, ts \in Times,
          al \in SeqsUpTo(LabelChoices, MaxLabels) :
          /\ args' = [fn |-> fn, name |-> name, ts |-> ts, additionalLabels |-> al]
          /\ callerLabels' = al
    /\ pc' = "called"
    /\ UNCHANGED <<series, vector, matrix, randDraws, selVars, bulkVars, statsVars>>

\* the generator runs: one draw from the shared random source, then the
\* series, the expected vector and the expected matrix
SingleGenerate ==
    /\ pc = "called"
    /\ \E value \in Intn(RandN) :
          LET out == ApplySeriesFunc(args.fn, args.name, args.ts,
                                     callerLabels, value)
          IN  /\ series' = out.series
              /\ vector' = out.vector
              /\ matrix' = out.matrix
              /\ callerLabels' = out.additionalLabels
    /\ randDraws' = randDraws + 1
    /\ pc' = "returned"
    /\ UNCHANGED <<args, selVars, bulkVars, statsVars>>

----------------------------------------------------------------------------
(* GenerateNHistogramSeries, one action per statement group of its loops *)

\* what the additionalLabels callback may return
BulkLabelReturns ==
    {<<>>, <<Label("job", "x")>>, <<Label(MetricName, "x")>>,
     <<Label("job", "x"), Label("job", "y")>>}

\* variant: i <= nExemplars
BulkExemplars_le(i, nExemplars, tsMillis) ==
    IF i <= nExemplars THEN <<Exemplar(i, tsMillis)>> ELSE <<>>

\* exemplars of series i
BulkExemplars(i, nExemplars, tsMillis) ==
    IF i < nExemplars THEN <<Exemplar(i, tsMillis)>> ELSE <<>>

\* the prompb.TimeSeries appended for index i
BulkSeries(lbls, i, nExemplars, tsMillis) ==
    [Labels |-> lbls,
     Samples |-> <<>>,
     Histograms |-> <<HistogramToHistogramProto(tsMillis, generateTestHistogram(i))>>,
     Exemplars |-> BulkExemplars(i, nExemplars, tsMillis)]

\* variant: the labels recomputed from the first series
BulkSample_first(srs, i, tsMillis) ==
    [Metric |-> MetricOf(srs[1].Labels),
     Timestamp |-> tsMillis,
     Histogram |-> generateTestSampleHistogram(i)]

\* the model.Sample appended for index i, from the series built before
BulkSample(srs, i, tsMillis) ==
    [Metric |-> MetricOf(srs[i + 1].Labels),
     Timestamp |-> tsMillis,
     Histogram |-> generateTestSampleHistogram(i)]

\* variant: the callback called even when it is nil
AfterName_unchecked(hasAdditionalLabels) == "labels"

\* after name(): the additionalLabels callback is called only when non-nil
AfterName(hasAdditionalLabels) ==
    IF hasAdditionalLabels THEN "labels" ELSE "append"

BulkCall ==
    /\ bpc = "idle"
    /\ \E n \in (0 - 1)..MaxSeries, ts \in Times, cb \in BOOLEAN :
          \E m \in (0 - 1)..(n + 1) :
              bargs' = [nSeries |-> n, nExemplars |-> m, ts |-> ts,
                        hasAdditionalLabels |-> cb]
    /\ bpc' = "loop"
    /\ bi' = 0
    /\ UNCHANGED <<blbls, bseries, bvector, calls, randDraws,
                   selVars, singleVars, statsVars>>

\* lbls := []prompb.Label{{Name: labels.MetricName, Value: name()}}
BulkName ==
    /\ bpc = "loop"
    /\ bi < bargs.nSeries
    /\ \E n \in Names : blbls' = <<Label(MetricName, n)>>
    /\ calls' = Append(calls, <<"name", bi>>)
    /\ bpc' = AfterName(bargs.hasAdditionalLabels)
    /\ UNCHANGED <<bargs, bi, bseries, bvector, randDraws,
                   selVars, singleVars, statsVars>>

\* lbls = append(lbls, additionalLabels()...)
BulkLabels ==
    /\ bpc = "labels"
    /\ \E al \in BulkLabelReturns : blbls' = blbls \o al
    /\ calls' = Append(calls, <<"additionalLabels", bi>>)
    /\ bpc' = "append"
    /\ UNCHANGED <<bargs, bi, bseries, bvector, randDraws,
                   selVars, singleVars, statsVars>>

\* exemplars, series = append(series, ...), i++
BulkAppend ==
    /\ bpc = "append"
    /\ bseries' = Append(bseries, BulkSeries(blbls, bi, bargs.nExemplars,
                                             TimeToMilliseconds(bargs.ts)))
    /\ bi' = bi + 1
    /\ bpc' = "loop"
    /\ UNCHANGED <<bargs, blbls, bvector, calls, randDraws,
                   selVars, singleVars, statsVars>>

\* the first loop ends, the second starts at i = 0
BulkLoopEnd ==
    /\ bpc = "loop"
    /\ ~(bi < bargs.nSeries)
    /\ bpc' = "vector"
    /\ bi' = 0
    /\ UNCHANGED <<bargs, blbls, bseries, bvector, calls, randDraws,
                   selVars, singleVars, statsVars>>

\* one iteration of the expected-vector loop
BulkVector ==
    /\ bpc = "vector"
    /\ bi < bargs.nSeries
    /\ bvector' = Append(bvector, BulkSample(bseries, bi,
                                             TimeToMilliseconds(bargs.ts)))
    /\ bi' = bi + 1
    /\ UNCHANGED <<bpc, bargs, blbls, bseries, calls, randDraws,
                   selVars, singleVars, statsVars>>

BulkReturn ==
    /\ bpc = "vector"
    /\ ~(bi < bargs.nSeries)
    /\ bpc' = "done"
    /\ UNCHANGED <<bargs, bi, blbls, bseries, bvector, calls, randDraws,
                   selVars, singleVars, statsVars>>

----------------------------------------------------------------------------
(* queryStatsMiddleware.Do *)

\* what parser.ParseExpr and parser.ExtractSelectors make of a query: "error",
\* or the selectors, each the sequence of its matchers, each matcher the
\* value of its IsRegexOptimized()
Queries ==
    {"error", <<>>, <<<<FALSE>>>>, <<<<TRUE>>>>, <<<<TRUE, FALSE>>, <<FALSE>>>>,
     <<<<>>, <<TRUE, TRUE>>>>}

Requests == [aligned : BOOLEAN, query : Queries]

\* what the next handler may return
NextResults ==
    {[response |-> "response", err |-> Nil], [response |-> Nil, err |-> "next_error"]}

RECURSIVE SumSeq(_)
SumSeq(s) == IF s = <<>> THEN 0 ELSE Head(s) + SumSeq(Tail(s))

\* number of executions of s.regexpMatcherCount.Inc() in the nested loop
MatcherIncs(selectors) ==
    SumSeq([k \in 1..Len(selectors) |-> Len(selectors[k])])

\* number of executions of s.regexpMatcherOptimizedCount.Inc()
OptimizedIncs(selectors) ==
    SumSeq([k \in 1..Len(selectors) |->
              Cardinality({j \in 1..Len(selectors[k]) : selectors[k][j]})])

\* variant: the alignment counted only after a successful parse
NonAlignedAfter_parsed(n, r) ==
    IF ~r.aligned /\ r.query # "error" THEN n + 1 ELSE n

\* s.nonAlignedQueries after the first statement of Do
NonAlignedAfter(n, r) == IF ~r.aligned THEN n + 1 ELSE n

ParseFails(r) == r.query = "error"

Do ==
    /\ nextCalls < MaxRequests
    /\ nonAlignedQueries < MaxRequests
    /\ \E r \in Requests :
          /\ req' = r
          /\ nonAlignedQueries' = NonAlignedAfter(nonAlignedQueries, r)
          /\ IF ParseFails(r)
             THEN /\ resp' = [response |-> Nil, err |-> "bad_data"]
                  /\ UNCHANGED <<regexpMatcherCount, regexpMatcherOptimizedCount,
                                 nextCalls>>
             ELSE /\ regexpMatcherCount' = regexpMatcherCount + MatcherIncs(r.query)
                  /\ regexpMatcherOptimizedCount' =
                        regexpMatcherOptimizedCount + OptimizedIncs(r.query)
                  /\ nextCalls' = nextCalls + 1
                  /\ resp' \in NextResults
    /\ UNCHANGED <<selVars, singleVars, randDraws, bulkVars>>

----------------------------------------------------------------------------
(* Initial states and specifications *)

InitRest ==
    /\ selOut = <<>>
    /\ pc = "idle"
    /\ args = Nil
    /\ series = <<>>
    /\ vector = <<>>
    /\ matrix = <<>>
    /\ callerLabels = <<>>
    /\ randDraws = 0
    /\ bpc = "idle"
    /\ bargs = Nil
    /\ bi = 0
    /\ blbls = <<>>
    /\ bseries = <<>>
    /\ bvector = <<>>
    /\ calls = <<>>
    /\ nonAlignedQueries = 0
    /\ regexpMatcherCount = 0
    /\ regexpMatcherOptimizedCount = 0
    /\ nextCalls = 0
    /\ req = Nil
    /\ resp = Nil

Init == selStart = 0 /\ InitRest

InitSelector == selStart \in MinIndex..MaxIndex /\ InitRest

NextSelector == SelectNext

NextSingle == SingleCall \/ SingleGenerate

NextBulk ==
    \/ BulkCall
    \/ BulkName
    \/ BulkLabels
    \/ BulkAppend
    \/ BulkLoopEnd
    \/ BulkVector
    \/ BulkReturn

NextStats == Do

\* one generator call at a time: the generators are synchronous
NextGenerators ==
    \/ bpc = "idle" /\ NextSingle
    \/ pc = "idle" /\ NextBulk

Next == NextSelector \/ NextGenerators \/ NextStats

Spec == InitSelector /\ [][Next]_vars

SpecGenerators == Init /\ [][NextGenerators]_vars

SpecSelector == InitSelector /\ [][NextSelector]_vars

SpecSingle == Init /\ [][NextSingle]_vars

SpecBulk == Init /\ [][NextBulk]_vars

SpecStats == Init /\ [][NextStats]_vars

----------------------------------------------------------------------------
(* Properties *)

\* the generator the selector documents for each residue
VariantAt(r) ==
    CASE r = 0 -> "generateFloatSeries"
      [] r = 1 -> "GenerateHistogramSeries"
      [] r = 2 -> "GenerateFloatHistogramSeries"
      [] r = 3 -> "GenerateGaugeHistogramSeries"
      [] r = 4 -> "GenerateGaugeFloatHistogramSeries"

\* index of the k-th call of the fixture loop
SelIndex(k) == selStart + k - 1

\* C1 as stated: for every integer index the selector returns the generator
\* of i mod 5, never "no generator", and the results of consecutive indices
\* repeat with period 5.
C1_SelectorTotal ==
    \A k \in 1..Len(selOut) :
        /\ selOut[k] # Nil
        /\ selOut[k] = VariantAt(SelIndex(k) % 5)
        /\ (k + 5 <= Len(selOut) => selOut[k + 5] = selOut[k])

\* C1 amended: for every non-negative index the selector returns the
\* generator of i mod 5, never "no generator", and the results of consecutive
\* non-negative indices repeat with period 5; a negative index that is no
\* multiple of 5 yields "no generator".
C1_SelectorNonNegative ==
    \A k \in 1..Len(selOut) :
        /\ SelIndex(k) >= 0 =>
              /\ selOut[k] # Nil
              /\ selOut[k] = VariantAt(SelIndex(k) % 5)
              /\ (k + 5 <= Len(selOut) => selOut[k + 5] = selOut[k])
        /\ (SelIndex(k) < 0 /\ SelIndex(k) % 5 # 0) => selOut[k] = Nil

C1_Witness ==
    /\ selStart >= 0
    /\ Len(selOut) >= 10
    /\ {selOut[k] : k \in 1..Len(selOut)} =
          HistogramSeriesFuncs \cup {"generateFloatSeries"}

\* label sets as sets of (name, value) pairs
PairsOfList(lbls) == {<<lbls[k].Name, lbls[k].Value>> : k \in 1..Len(lbls)}

PairsOfMetric(m) == {<<n, m[n]>> : n \in DOMAIN m}

\* no label name occurs with two different values
Consistent(lbls) ==
    \A j, k \in 1..Len(lbls) :
        lbls[j].Name = lbls[k].Name => lbls[j].Value = lbls[k].Value

\* C2 as stated: for any additional labels the expected vector entry and the
\* expected matrix entry have exactly the label set of the wire series, the
\* metric-name label carrying the supplied name.
C2_LabelFidelity ==
    pc = "returned" =>
        /\ PairsOfMetric(vector[1].Metric) = PairsOfList(series[1].Labels)
        /\ PairsOfMetric(matrix[1].Metric) = PairsOfList(series[1].Labels)
        /\ vector[1].Metric[MetricName] = args.name
        /\ matrix[1].Metric[MetricName] = args.name

\* C2 amended: the expected entries always have the label names of the wire
\* series; when no label name of the wire series (metric name included)
\* occurs with two different values, their label sets are exactly the wire
\* series' label set and the metric-name label carries the supplied name.
C2_LabelFidelityConsistent ==
    pc = "returned" =>
        /\ DOMAIN vector[1].Metric = LabelNamesOf(series[1].Labels)
        /\ DOMAIN matrix[1].Metric = LabelNamesOf(series[1].Labels)
        /\ Consistent(series[1].Labels) =>
              /\ PairsOfMetric(vector[1].Metric) = PairsOfList(series[1].Labels)
              /\ PairsOfMetric(matrix[1].Metric) = PairsOfList(series[1].Labels)
              /\ vector[1].Metric[MetricName] = args.name
              /\ matrix[1].Metric[MetricName] = args.name

C2_Witness ==
    /\ pc = "returned"
    /\ Len(args.additionalLabels) = 2
    /\ Consistent(series[1].Labels)
    /\ Cardinality(DOMAIN vector[1].Metric) = 2

\* C3: in bulk generation series i carries exactly one exemplar, of value i
\* and label trace_id, when i < M and none when i >= M; the wire histogram of
\* series i and expected vector entry i are built from seed i; no series
\* beyond N is produced.
C3_BulkIndexAlignment ==
    /\ \A k \in 1..Len(bseries) :
          /\ (k - 1 < bargs.nExemplars =>
                /\ Len(bseries[k].Exemplars) = 1
                /\ bseries[k].Exemplars[1].Value = Float64(k - 1)
                /\ bseries[k].Exemplars[1].Labels[1].Name = "trace_id")
          /\ (k - 1 >= bargs.nExemplars => bseries[k].Exemplars = <<>>)
          /\ Len(bseries[k].Histograms) = 1
          /\ bseries[k].Histograms[1].h.seed = k - 1
    /\ \A k \in 1..Len(bvector) : bvector[k].Histogram.seed = k - 1
    /\ bpc # "idle" => Len(bseries) <= bargs.nSeries \/ bseries = <<>>
    /\ bpc = "done" /\ bargs.nSeries >= 0 => Len(bseries) = bargs.nSeries

C3_Witness ==
    /\ bpc = "done"
    /\ bargs.nSeries = 3
    /\ bargs.nExemplars = 1

\* C4: a single-series generation draws one seed v, 0 <= v <= 999, and v
\* seeds the wire histogram, is the value of the one exemplar, and seeds the
\* histograms of the expected vector and matrix entries, which come from the
\* read-path conversion and not from the wire histogram.
C4_OneSeed ==
    pc = "returned" =>
        \E v \in 0..999 :
            /\ randDraws = 1
            /\ series[1].Histograms[1].h.seed = v
            /\ series[1].Exemplars[1].Value = Float64(v)
            /\ vector[1].Histogram = [gen |-> "GenerateTestSampleHistogram", seed |-> v]
            /\ matrix[1].Histograms[1].Histogram =
                  [gen |-> "GenerateTestSampleHistogram", seed |-> v]
            /\ vector[1].Histogram # series[1].Histograms[1]
            /\ vector[1].Histogram # series[1].Histograms[1].h

C4_Witness ==
    /\ pc = "returned"
    /\ series[1].Histograms[1].h.seed = 999
    /\ args.fn = "GenerateGaugeFloatHistogramSeries"

\* the millisecond value of a time given in nanoseconds (times of the model
\* are not negative)
MillisOf(ts) == ts \div 1000000

\* C5: the single-series generator stamps the wire histogram, the exemplar,
\* the expected vector entry and the pair of the expected matrix entry with
\* the millisecond value of its timestamp; the bulk generator stamps every
\* histogram, exemplar and expected vector entry with the millisecond value
\* of its timestamp.
C5_TimestampPropagation ==
    /\ pc = "returned" =>
          /\ series[1].Histograms[1].Timestamp = MillisOf(args.ts)
          /\ series[1].Exemplars[1].Timestamp = MillisOf(args.ts)
          /\ vector[1].Timestamp = MillisOf(args.ts)
          /\ matrix[1].Histograms[1].Timestamp = MillisOf(args.ts)
    /\ \A k \in 1..Len(bseries) :
          /\ bseries[k].Histograms[1].Timestamp = MillisOf(bargs.ts)
          /\ \A e \in 1..Len(bseries[k].Exemplars) :
                bseries[k].Exemplars[e].Timestamp = MillisOf(bargs.ts)
    /\ \A k \in 1..Len(bvector) : bvector[k].Timestamp = MillisOf(bargs.ts)

C5_Witness ==
    /\ bpc = "done"
    /\ bargs.ts = 1500000
    /\ Len(bvector) = 2
    /\ Len(bseries[2].Exemplars) = 1

\* C6: a single-series generation returns one wire series, one expected
\* vector entry and one expected matrix entry; the series has one histogram,
\* no value sample and one exemplar labelled trace_id=1234; the matrix entry
\* has one pair; the expected entries hold no exemplar.
C6_Singletons ==
    pc = "returned" =>
        /\ Len(series) = 1
        /\ Len(vector) = 1
        /\ Len(matrix) = 1
        /\ Len(series[1].Histograms) = 1
        /\ Len(series[1].Samples) = 0
        /\ Len(series[1].Exemplars) = 1
        /\ series[1].Exemplars[1].Labels = <<[Name |-> "trace_id", Value |-> "1234"]>>
        /\ Len(matrix[1].Histograms) = 1
        /\ "Exemplars" \notin DOMAIN vector[1]
        /\ "Exemplars" \notin DOMAIN matrix[1]
        /\ "Exemplars" \notin DOMAIN matrix[1].Histograms[1]

C6_Witness ==
    /\ pc = "returned"
    /\ args.fn = "GenerateFloatHistogramSeries"
    /\ args.additionalLabels = <<>>

\* C7: the wire label list is the metric-name label followed by the
\* additional labels in the supplied order, 1 + k entries for k additional
\* labels, repeated names kept; the caller's sequence is not modified.
C7_WireLabelOrder ==
    pc = "returned" =>
        /\ Len(series[1].Labels) = 1 + Len(args.additionalLabels)
        /\ series[1].Labels[1] = [Name |-> "__name__", Value |-> args.name]
        /\ \A k \in 1..Len(args.additionalLabels) :
              series[1].Labels[k + 1] = args.additionalLabels[k]
        /\ callerLabels = args.additionalLabels

C7_Witness ==
    /\ pc = "returned"
    /\ Len(args.additionalLabels) = 2
    /\ args.additionalLabels[1].Name = args.additionalLabels[2].Name
    /\ args.additionalLabels[1].Value # args.additionalLabels[2].Value

\* m is the label map of the label list lbls: its names, each with the value
\* of the last label of that name
IsMapOf(m, lbls) ==
    /\ DOMAIN m = {lbls[k].Name : k \in 1..Len(lbls)}
    /\ \A k \in 1..Len(lbls) :
          (\A j \in (k + 1)..Len(lbls) : lbls[j].Name # lbls[k].Name)
              => m[lbls[k].Name] = lbls[k].Value

\* C8: bulk generation with N >= 0 returns N series and N expected vector
\* entries, and the label set of entry i is the one obtained from the labels
\* of wire series i.
C8_BulkAligned ==
    bpc = "done" /\ bargs.nSeries >= 0 =>
        /\ Len(bseries) = bargs.nSeries
        /\ Len(bvector) = bargs.nSeries
        /\ \A k \in 1..bargs.nSeries : IsMapOf(bvector[k].Metric, bseries[k].Labels)

C8_Witness ==
    /\ bpc = "done"
    /\ bargs.nSeries = 3
    /\ bseries[1].Labels # bseries[2].Labels
    /\ Len(bseries[3].Labels) = 3

\* the callback invocations of a bulk generation of n series
ExpectedCalls(n, hasAdditionalLabels) ==
    IF n <= 0 THEN <<>>
    ELSE IF hasAdditionalLabels
         THEN [k \in 1..(2 * n) |->
                 IF k % 2 = 1 THEN <<"name", (k - 1) \div 2>>
                 ELSE <<"additionalLabels", (k - 2) \div 2>>]
         ELSE [k \in 1..n |-> <<"name", k - 1>>]

\* C9: a bulk generation of N series invokes the name callback N times and
\* the additional-labels callback, when supplied, N times, name then labels
\* for each series in index order; none is invoked while the expected vector
\* is built; without the additional-labels callback every series has only
\* the metric-name label; nothing is drawn from the random source.
C9_CallbackOrder ==
    /\ bpc \in {"vector", "done"} =>
          calls = ExpectedCalls(bargs.nSeries, bargs.hasAdditionalLabels)
    /\ bpc # "idle" /\ ~bargs.hasAdditionalLabels =>
          \A k \in 1..Len(bseries) :
              /\ Len(bseries[k].Labels) = 1
              /\ bseries[k].Labels[1].Name = "__name__"
    /\ randDraws = 0

C9_Witness ==
    /\ bpc = "done"
    /\ bargs.nSeries = 3
    /\ bargs.hasAdditionalLabels
    /\ Len(calls) = 6

\* one step of the middleware, req' being the request it handled
DoEffect ==
    LET parses == req'.query # "error"
    IN  /\ nextCalls' = nextCalls + (IF parses THEN 1 ELSE 0)
        /\ ~parses =>
              /\ resp' = [response |-> "nil", err |-> "bad_data"]
              /\ regexpMatcherCount' = regexpMatcherCount
              /\ regexpMatcherOptimizedCount' = regexpMatcherOptimizedCount
        /\ parses => resp'.err # "bad_data"
        /\ nonAlignedQueries' =
              nonAlignedQueries + (IF req'.aligned THEN 0 ELSE 1)

\* C10: the middleware invokes the next handler once for a request whose
\* query parses and never for one whose query does not parse, which returns
\* a bad-data error and no response; only requests that parse change the
\* regexp-matcher counters; the optimized count never exceeds the matcher
\* count; the non-step-aligned counter is incremented for every non-aligned
\* request, parsed or not.
C10_StatsMiddleware ==
    /\ [][DoEffect]_vars
    /\ [](regexpMatcherOptimizedCount <= regexpMatcherCount)

C10_Witness ==
    /\ nextCalls = 2
    /\ nonAlignedQueries = 2
    /\ regexpMatcherOptimizedCount > 0
    /\ regexpMatcherOptimizedCount < regexpMatcherCount
    /\ req.query = "error"
    /\ ~req.aligned

====
